---------------------------- MODULE Spec2Model ----------------------------
(***************************************************************************)
(* Model of bitname-cli: the lock-transaction verifier (src/lib/verify.ts) *)
(* and the transaction builders, the escrow script builder and the coin    *)
(* selection of src/lib/net.ts, plus the TXList index exercised by         *)
(* src/unnamed/part_001.                                                   *)
(*                                                                         *)
(* Every operation is a function of its arguments, so each gets its own    *)
(* specification: Init draws the arguments from bounded sets and the       *)
(* actions apply the operation.  Variables a specification does not use    *)
(* stay at their idle values.                                              *)
(***************************************************************************)
EXTENDS Integers, Sequences, FiniteSets, TLC

VARIABLES
    tx,           \* verifyLockTX: the transaction under verification (sequence of outputs)
    serviceAddr,  \* verifyLockTX / genLockTx: the service's Address object
    vpc,          \* verifyLockTX: "idle" | "ready" | "done"
    vresult,      \* verifyLockTX: "none" | "true" | "false" | "TypeError"
    vline,        \* verifyLockTX: line of verify.ts where the call ended (0 before)
    lin,          \* genLockTx: the arguments (coins, name, upfrontFee, lockedFee, feeRate)
    lpc,          \* genLockTx: "idle" | "start" | "built" | "funded" | "done" | "error"
    lockTx,       \* genLockTx: the MTX under construction [inputs, outputs]
    lfee,         \* genLockTx: the fee of line 354 (-1 before)
    ein,          \* makeEncumberScript: the arguments (userPubkey, servicePubkey, rlocktime)
    epc,          \* makeEncumberScript: "idle" | "start" | "done"
    escript,      \* makeEncumberScript: the script returned (sequence of opcodes)
    fin,          \* fundTx: the target and the server's listunspent answer
    fpc,          \* fundTx: "idle" | "start" | "done" | "error"
    coins,        \* fundTx: the coins returned
    ferr,         \* fundTx: the message of the error thrown ("" when none)
    tin,          \* new TXList: the arguments (txs, spent, heights)
    tpc,          \* new TXList: "idle" | "start" | "done" | "error"
    txlist,       \* new TXList: the object constructed
    terr,         \* new TXList: the error thrown
    uin,          \* genUnlockTx: the arguments (lockTx, locktime, feeRate)
    upc,          \* genUnlockTx: "idle" | "start" | "unsigned" | "provisional" |
                  \*              "feeSubtracted" | "finalized" | "error"
    unlockTx,     \* genUnlockTx: the MTX under construction [inputs, outputs]
    unlockScript, \* genUnlockTx: the first input script built (line 383)
    ufee,         \* genUnlockTx: the fee of line 396 (-1 before)
    gin,          \* getAllTX: the server's answers (history, unspent outputs)
    gpc,          \* getAllTX: "idle" | "start" | "map" | "done"
    confirmedOnly,\* getAllTX: the confirmed history entries, each with its fetched TX
    unspents,     \* getAllTX: the cache of line 149, address -> set of txid:index keys
    callbacks,    \* getAllTX: per output callback, its position and returned flag
    outputsSpent, \* getAllTX: the flags handed to TXList (line 152)
    gtxlist       \* getAllTX: the TXList returned

vvars == <<tx, serviceAddr, vpc, vresult, vline>>
lvars == <<lin, lpc, lockTx, lfee>>
evars == <<ein, epc, escript>>
fvars == <<fin, fpc, coins, ferr>>
tvars == <<tin, tpc, txlist, terr>>
uvars == <<uin, upc, unlockTx, unlockScript, ufee>>
gvars == <<gin, gpc, confirmedOnly, unspents, callbacks, outputsSpent, gtxlist>>

vars == <<vvars, lvars, evars, fvars, tvars, uvars, gvars>>

(***************************************************************************)
(* Byte strings.  A Buffer is kept run-length encoded: a sequence of runs  *)
(* [b |-> byte, n |-> repeat count], so that a 65-byte name is one run.    *)
(***************************************************************************)
RECURSIVE ByteLength(_)
ByteLength(buf) ==
    IF buf = <<>> THEN 0 ELSE Head(buf).n + ByteLength(Tail(buf))

\* The bytes that occur in a buffer.
BytesOf(buf) == {buf[i].b : i \in DOMAIN buf}

\* A string is run-length encoded too: runs [c |-> code point, n |-> count].
\* Buffer.toString('ascii'): every byte is decoded with its highest bit unset.
RECURSIVE toStringAscii(_)
toStringAscii(buf) ==
    IF buf = <<>> THEN <<>>
    ELSE <<[c |-> Head(buf).b % 128, n |-> Head(buf).n]>> \o toStringAscii(Tail(buf))

\* The UTF-8 bytes of n copies of the code point c (c below 0x800).
RECURSIVE Utf8Run(_, _)
Utf8Run(c, n) ==
    IF c < 128 THEN <<[b |-> c, n |-> n]>>
    ELSE IF n = 0 THEN <<>>
    ELSE <<[b |-> 192 + (c \div 64), n |-> 1], [b |-> 128 + (c % 64), n |-> 1]>>
         \o Utf8Run(c, n - 1)

\* Buffer.from(str, 'utf-8').
RECURSIVE fromUtf8(_)
fromUtf8(str) ==
    IF str = <<>> THEN <<>>
    ELSE Utf8Run(Head(str).c, Head(str).n) \o fromUtf8(Tail(str))

\* The code points that occur in a string.
CharsOf(str) == {str[i].c : i \in DOMAIN str}

\* One character of the class [a-zA-Z0-9_\-\.\~] of the regular expression.
InURIClass(c) ==
    \/ c \in 97..122      \* a-z
    \/ c \in 65..90       \* A-Z
    \/ c \in 48..57       \* 0-9
    \/ c = 95             \* _
    \/ c = 45             \* -
    \/ c = 46             \* .
    \/ c = 126            \* ~

\* The class [A-Za-z0-9_.~], without the hyphen.
InURIClassNoHyphen(c) == InURIClass(c) /\ c # 45

\* A test every string passes.
isURISafeAll(str) == TRUE

isURISafe(str) == \A i \in DOMAIN str : InURIClass(str[i].c)

MaxNameBytes == 64

(***************************************************************************)
(* Scripts, addresses and outputs.                                         *)
(*   script.type : what isNulldata / isPubkeyhash / isScripthash classify  *)
(*   script.len  : script.length, the number of opcodes                    *)
(*   script.data : code[1].data, a Buffer, or NoData for an opcode that    *)
(*                 is no data push (bcoin keeps data = null there)         *)
(*   script.hash : the 20-byte hash of a P2PKH / P2SH script, or "none"      *)
(* An Address is an object: `obj` is its identity, `hash` and `type` its    *)
(* content.  verify.ts compares addresses with !==, that is by identity.   *)
(***************************************************************************)
NoData == <<[b |-> -1, n |-> 0]>>
NoAddress == [obj |-> "null", hash |-> "none", type |-> "none"]

Script(type, len, data, hash) == [type |-> type, len |-> len, data |-> data, hash |-> hash]

\* Script.fromNulldata(data): OP_RETURN followed by one push of data.
fromNulldata(data) == Script("nulldata", 2, data, "none")

Output(script, value, address) == [script |-> script, value |-> value, address |-> address]

isNulldata(script) == script.type = "nulldata"
isPubkeyhash(script) == script.type = "pubkeyhash"
isScripthash(script) == script.type = "scripthash"

\* output.getAddress(): the Address object of the output.
getAddress(output) == output.address

\* Sample buffers.
PubKeyA    == <<[b |-> 2, n |-> 1], [b |-> 97, n |-> 32]>>   \* a compressed key, 33 bytes
NamePlain  == <<[b |-> 97, n |-> 2]>>                          \* "aa"
NameHyphen == <<[b |-> 97, n |-> 1], [b |-> 45, n |-> 1], [b |-> 98, n |-> 1]>>  \* "a-b"
NameSpace  == <<[b |-> 97, n |-> 1], [b |-> 32, n |-> 1], [b |-> 98, n |-> 1]>>  \* "a b"
NameMax    == <<[b |-> 97, n |-> MaxNameBytes]>>               \* 64 x "a"
NameLong   == <<[b |-> 97, n |-> MaxNameBytes + 1]>>           \* 65 x "a"
NameHigh   == <<[b |-> 225, n |-> 1]>>                         \* the byte 0xE1 ("a" with bit 7 set)

ValidPubKeys == {PubKeyA}

\* crypto.secp256k1.publicKeyVerify on a Buffer: curve validation, kept as
\* membership in the set of valid keys.
publicKeyVerify(data) == data \in ValidPubKeys

\* Address objects: the service's address, a second object with the same
\* content (what Address.fromScript derives from an output script), and an
\* unrelated address.
ServiceAddress == [obj |-> "service", hash |-> "hashS", type |-> "pubkeyhash"]
ServiceScriptAddress == [obj |-> "service", hash |-> "hashT", type |-> "scripthash"]
OtherAddress   == [obj |-> "other", hash |-> "hashO", type |-> "scripthash"]
OwnerAddress   == [obj |-> "owner", hash |-> "hashK", type |-> "pubkeyhash"]
EscrowAddress  == [obj |-> "escrow", hash |-> "hashE", type |-> "scripthash"]

\* Address.fromScript(script): a new Address object with the script's content.
DerivedAddress(address) == [address EXCEPT !.obj = "derived"]

\* Script.fromAddress(address): the P2PKH (5 opcodes) or P2SH (3 opcodes) script.
fromAddress(address) ==
    IF address.type = "pubkeyhash"
    THEN Script("pubkeyhash", 5, NoData, address.hash)
    ELSE Script("scripthash", 3, <<[b |-> 7, n |-> 20]>>, address.hash)

\* An output paying `value` to `address` whose getAddress() gives `object`.
PayTo(address, value, object) == Output(fromAddress(address), value, object)
NullData(data, value) == Output(fromNulldata(data), value, NoAddress)

(***************************************************************************)
(* verifyLockTX (src/lib/verify.ts).  tx.outputs[k] is tx[k + 1]; reading  *)
(* a field of tx.outputs[k] for k >= tx.outputs.length raises a TypeError. *)
(* The operator gives the set of outcomes [result, line]: the call on a    *)
(* null `data` at line 44 goes into the secp256k1 binding, which either    *)
(* raises or answers false depending on the backend bcoin loaded.          *)
(***************************************************************************)
Ret(result, line) == [result |-> result, line |-> line]

HasOutput(t, k) == k + 1 <= Len(t)

isValidOP_RETURN(output) ==
    /\ isNulldata(output.script)
    /\ output.value = 0
    /\ output.script.len = 2

NameTooLong(name) == ByteLength(name) > MaxNameBytes

verifyLockTX(t, addr) ==
    IF Len(t) >= 4 THEN {Ret("false", 34)}
    ELSE IF ~HasOutput(t, 0) THEN {Ret("TypeError", 15)}
    ELSE IF ~isValidOP_RETURN(t[1]) THEN {Ret("false", 39)}
    ELSE IF t[1].script.data = NoData THEN {Ret("TypeError", 44), Ret("false", 45)}
    ELSE IF ~publicKeyVerify(t[1].script.data) THEN {Ret("false", 45)}
    ELSE IF ~HasOutput(t, 1) THEN {Ret("TypeError", 15)}
    ELSE IF ~isValidOP_RETURN(t[2]) THEN {Ret("false", 50)}
    ELSE IF t[2].script.data = NoData THEN {Ret("TypeError", 55)}
    ELSE IF NameTooLong(t[2].script.data) THEN {Ret("false", 57)}
    ELSE IF ~isURISafe(toStringAscii(t[2].script.data)) THEN {Ret("false", 62)}
    ELSE IF ~HasOutput(t, 2) THEN {Ret("TypeError", 66)}
    ELSE IF ~isPubkeyhash(t[3].script) /\ ~isScripthash(t[3].script) THEN {Ret("false", 68)}
    ELSE IF getAddress(t[3]) # addr THEN {Ret("false", 73)}
    ELSE IF ~HasOutput(t, 3) THEN {Ret("TypeError", 77)}
    ELSE IF ~isScripthash(t[4].script) THEN {Ret("false", 78)}
    ELSE {Ret("true", 81)}

\* The call verifyLockTX(tx, serviceAddr) on the transaction at hand.
VerifyLockTX ==
    /\ vpc = "ready"
    /\ \E r \in verifyLockTX(tx, serviceAddr) :
          /\ vresult' = r.result
          /\ vline' = r.line
    /\ vpc' = "done"
    /\ UNCHANGED <<tx, serviceAddr, lvars, evars, fvars, tvars, uvars, gvars>>

\* No error thrown by the TXList constructor.
NoError == [msg |-> "", txid |-> "", got |-> 0, expected |-> 0]

\* No TXList constructed.
NoTXList == [txids |-> <<>>, spent |-> <<>>, heights |-> <<>>]

\* The operations a specification does not exercise have not been called.
IdleVerify ==
    /\ tx = <<>>
    /\ serviceAddr = ServiceAddress
    /\ vpc = "idle"
    /\ vresult = "none"
    /\ vline = 0

IdleEnc ==
    /\ ein = [userPubkey |-> <<>>, servicePubkey |-> <<>>, rlocktime |-> 0]
    /\ epc = "idle"
    /\ escript = <<>>

IdleFund ==
    /\ fin = [utxos |-> <<>>, target |-> 0]
    /\ fpc = "idle"
    /\ coins = <<>>
    /\ ferr = ""

IdleTXList ==
    /\ tin = [txs |-> <<>>, spent |-> <<>>, heights |-> <<>>]
    /\ tpc = "idle"
    /\ txlist = NoTXList
    /\ terr = NoError

\* An input script not yet built.
EmptyScript == [size |-> 0, items |-> <<>>]

IdleUnlock ==
    /\ uin = [lockTx |-> [txid |-> "", outputs |-> <<>>], locktime |-> 0, feeRate |-> 0, dust |-> 0]
    /\ upc = "idle"
    /\ unlockTx = [inputs |-> <<>>, outputs |-> <<>>]
    /\ unlockScript = EmptyScript
    /\ ufee = -1

IdleGetAll ==
    /\ gin = [history |-> <<>>, unspent |-> {}]
    /\ gpc = "idle"
    /\ confirmedOnly = <<>>
    /\ unspents = <<>>
    /\ callbacks = <<>>
    /\ outputsSpent = <<>>
    /\ gtxlist = NoTXList

IdleLock ==
    /\ lin = [coins |-> <<>>, name |-> <<>>, upfrontFee |-> 0, lockedFee |-> 0,
              feeRate |-> 0, dust |-> 0]
    /\ lpc = "idle"
    /\ lockTx = [inputs |-> <<>>, outputs |-> <<>>]
    /\ lfee = -1

(***************************************************************************)
(* Specification of the verifier alone: any transaction of up to           *)
(* MaxOutputs outputs, the four the verifier reads drawn from              *)
(* VerifyOutputs.                                                          *)
(***************************************************************************)
MaxOutputs == 5

VerifyNames == {NamePlain, NameHyphen, NameSpace, NameMax, NameLong, NameHigh}

VerifyOutputs ==
    {NullData(PubKeyA, 0),
     Output(Script("nulldata", 2, NoData, "none"), 0, NoAddress),   \* OP_RETURN OP_1
     NullData(NamePlain, 1),
     PayTo(ServiceAddress, 1, ServiceAddress),
     PayTo(ServiceAddress, 1, DerivedAddress(ServiceAddress)),
     PayTo(OtherAddress, 1, OtherAddress)}
    \cup {NullData(name, 0) : name \in VerifyNames}

\* Outputs past index 3, which verifyLockTX never reads.
ExtraOutputs == {NullData(PubKeyA, 0), PayTo(OtherAddress, 1, OtherAddress)}

InitVerify ==
    /\ \E n \in 0..MaxOutputs :
       \E read \in [1..(IF n < 4 THEN n ELSE 4) -> VerifyOutputs] :
       \E rest \in [1..(IF n < 4 THEN 0 ELSE n - 4) -> ExtraOutputs] :
          tx = read \o rest
    /\ serviceAddr = ServiceAddress
    /\ vpc = "ready"
    /\ vresult = "none"
    /\ vline = 0
    /\ IdleLock /\ IdleEnc /\ IdleFund /\ IdleTXList /\ IdleUnlock /\ IdleGetAll

NextVerify == VerifyLockTX

SpecVerify == InitVerify /\ [][NextVerify]_vars

(***************************************************************************)
(* Properties of the verifier.                                             *)
(***************************************************************************)
\* The bytes of a name are all URL-safe ASCII characters (no hyphen needed).
PlainURLSafe(name) == \A c \in BytesOf(name) : c < 128 /\ InURIClassNoHyphen(c)

\* A well-formed commitment output: zero-value two-opcode null data with a push.
Commitment(output) ==
    /\ isNulldata(output.script)
    /\ output.value = 0
    /\ output.script.len = 2
    /\ output.script.data # NoData

\* The canonical four-output lock transaction of the verifier's contract.
CanonicalLockTx(t, addr) ==
    /\ Len(t) = 4
    /\ Commitment(t[1])
    /\ t[1].script.data \in ValidPubKeys
    /\ Commitment(t[2])
    /\ ByteLength(t[2].script.data) <= MaxNameBytes
    /\ PlainURLSafe(t[2].script.data)
    /\ isPubkeyhash(t[3].script) \/ isScripthash(t[3].script)
    /\ getAddress(t[3]) = addr
    /\ isScripthash(t[4].script)

\* C1: verifyLockTX returns true for every canonical four-output lock
\* transaction: the output-count check (the return of line 34) lets four
\* outputs pass and rejects only transactions with more than four.
C1Claim ==
    (vpc = "done" /\ CanonicalLockTx(tx, serviceAddr))
    => vresult = "true" /\ vline # 34

\* C3: verifyLockTX is total: every call ends by returning true or false,
\* never by raising an error.
C3Claim == vpc = "done" => vresult \in {"true", "false"}

\* Output 1 pushes a name (a null-data script whose second opcode is a push).
PushesName(t) ==
    /\ Len(t) >= 2
    /\ isNulldata(t[2].script)
    /\ t[2].script.data # NoData

RefusedName(name) ==
    \/ ByteLength(name) > MaxNameBytes
    \/ \E c \in BytesOf(name) : ~InURIClass(c % 128)

RECURSIVE SumSeq(_)
SumSeq(q) == IF q = <<>> THEN 0 ELSE Head(q) + SumSeq(Tail(q))

Values(outputs) == [i \in DOMAIN outputs |-> outputs[i].value]

\* Bytes a data push of `len` bytes takes in a script (direct push or PUSHDATA1).
PushSize(len) == IF len <= 75 THEN 1 + len ELSE 2 + len

\* Serialized size of a script, by its kind.
ScriptSize(script) ==
    IF script.type = "pubkeyhash" THEN 25
    ELSE IF script.type = "scripthash" THEN 23
    ELSE 1 + PushSize(ByteLength(script.data))

\* value (8) + script length (1) + script
OutputSize(output) == 9 + ScriptSize(output.script)

\* outpoint (36) + script length (1) + script + sequence (4)
InputSize(input) == 41 + input.script.size

\* mtx.getVirtualSize() of a transaction without witness data:
\* version (4) + input count (1) + output count (1) + locktime (4) + the rest.
getVirtualSize(mtx) ==
    10 + SumSeq([i \in DOMAIN mtx.inputs |-> InputSize(mtx.inputs[i])])
       + SumSeq([i \in DOMAIN mtx.outputs |-> OutputSize(mtx.outputs[i])])

\* Math.ceil(virtSize / 1000 * feeRate) in double arithmetic: the values the
\* expression can take.  The quotient virtSize / 1000 is rounded, so when the
\* exact product is an integer k the rounded product may lie just above k
\* and the ceiling is then k + 1; otherwise it is the exact ceiling.
CeilFee(virtSize, feeRate) ==
    LET exact == (virtSize * feeRate + 999) \div 1000
    IN IF (virtSize * feeRate) % 1000 = 0 /\ virtSize * feeRate > 0
       THEN {exact, exact + 1}
       ELSE {exact}

\* The subtraction without the check of the output's value.
subtractFeeUnguarded(outputs, fee, index, dust) ==
    [ok |-> TRUE, outputs |-> [outputs EXCEPT ![index + 1].value = @ - fee]]

\* mtx.subtractFee(fee, index): takes the fee from outputs[index]; throws when
\* that output cannot pay the fee and stay at or above its dust threshold.
subtractFee(outputs, fee, index, dust) ==
    IF ~(index + 1 \in DOMAIN outputs) \/ outputs[index + 1].value < fee + dust
    THEN [ok |-> FALSE, outputs |-> outputs]
    ELSE [ok |-> TRUE, outputs |-> [outputs EXCEPT ![index + 1].value = @ - fee]]

\* mtx.addOutput({address, value}): the output script is made from the
\* address; getAddress() on the output derives a new Address object from it.
addOutput(address, value) == PayTo(address, value, DerivedAddress(address))

\* const opRetVal = 1 (line 317)
opRetVal == 1

\* Size of the input script scriptInput leaves for a P2PKH coin: an empty
\* signature slot (1) and the push of the 33-byte key (34).
TemplateScript == [size |-> 35]

\* Size of that script once signInput has put a 72-byte signature in the slot.
SignedScript == [size |-> 107]

\* Lines 309-350: inputs, the four outputs, placeholder input scripts.
\* Output values must be unsigned integers: addOutput throws on a negative one.
LockBuild ==
    /\ lpc = "start"
    /\ LET total == SumSeq(lin.coins)
           changeVal == total - opRetVal - lin.upfrontFee - lin.lockedFee
           inputs == [i \in DOMAIN lin.coins |-> [value |-> lin.coins[i], script |-> [size |-> 0]]]
       IN IF changeVal < 0
          THEN /\ lockTx' = [inputs |-> inputs, outputs |-> <<>>]
               /\ lpc' = "error"
          ELSE /\ lockTx' =
                     [inputs |-> [i \in DOMAIN inputs |-> [inputs[i] EXCEPT !.script = TemplateScript]],
                      outputs |-> <<addOutput(OwnerAddress, changeVal),
                                    Output(fromNulldata(fromUtf8(lin.name)), opRetVal, NoAddress),
                                    addOutput(serviceAddr, lin.upfrontFee),
                                    addOutput(EscrowAddress, lin.lockedFee)>>]
               /\ lpc' = "built"
    /\ UNCHANGED <<lin, lfee, vvars, evars, fvars, tvars, uvars, gvars>>

\* Lines 352-354: the fee, taken from output 0.
LockFee ==
    /\ lpc = "built"
    /\ LET virtSize == getVirtualSize(lockTx) + Len(lin.coins) * 72
       IN \E fee \in CeilFee(virtSize, lin.feeRate) :
          LET sub == subtractFee(lockTx.outputs, fee, 0, lin.dust)
          IN /\ lfee' = fee
             /\ lockTx' = [lockTx EXCEPT !.outputs = sub.outputs]
             /\ lpc' = IF sub.ok THEN "funded" ELSE "error"
    /\ UNCHANGED <<lin, vvars, evars, fvars, tvars, uvars, gvars>>

\* Lines 356-365: sign every input, return lockTx.toTX().  The returned
\* transaction is handed to the verifier.
LockSign ==
    /\ lpc = "funded"
    /\ lockTx' = [lockTx EXCEPT !.inputs =
                     [i \in DOMAIN lockTx.inputs |-> [lockTx.inputs[i] EXCEPT !.script = SignedScript]]]
    /\ lpc' = "done"
    /\ tx' = lockTx.outputs
    /\ vpc' = "ready"
    /\ UNCHANGED <<lin, lfee, serviceAddr, vresult, vline, evars, fvars, tvars, uvars, gvars>>

(***************************************************************************)
(* Specification of the builder followed by the verifier.                  *)
(***************************************************************************)
MaxCoins == 2

CoinValues == {1000, 2000}

StrPlain  == <<[c |-> 97, n |-> 2]>>                                                \* "aa"
StrHyphen == <<[c |-> 97, n |-> 1], [c |-> 45, n |-> 1], [c |-> 98, n |-> 1]>>      \* "a-b"
StrSpace  == <<[c |-> 97, n |-> 1], [c |-> 32, n |-> 1], [c |-> 98, n |-> 1]>>      \* "a b"
StrDegree == <<[c |-> 176, n |-> 1]>>                                               \* U+00B0
StrLong   == <<[c |-> 97, n |-> MaxNameBytes + 1]>>                                 \* 65 x "a"

LockNames == {StrPlain, StrHyphen, StrSpace, StrDegree, StrLong}

\* output.getDustThreshold() of the change output: 0 when the policy's relay
\* rate is 0, 546 for a P2PKH output at the default rate.
DustThresholds == {0, 546}

InitLock ==
    /\ \E n \in 0..MaxCoins : \E cs \in [1..n -> CoinValues] :
       lin \in [coins : {cs}, name : LockNames, upfrontFee : {0, 300},
                lockedFee : {200, 1500}, feeRate : {0, 1000, 2500}, dust : DustThresholds]
    /\ lpc = "start"
    /\ lockTx = [inputs |-> <<>>, outputs |-> <<>>]
    /\ lfee = -1
    /\ tx = <<>>
    /\ serviceAddr \in {ServiceAddress, ServiceScriptAddress}
    /\ vpc = "idle"
    /\ vresult = "none"
    /\ vline = 0
    /\ IdleEnc /\ IdleFund /\ IdleTXList /\ IdleUnlock /\ IdleGetAll

NextLock == LockBuild \/ LockFee \/ LockSign \/ VerifyLockTX

SpecLock == InitLock /\ [][NextLock]_vars

(***************************************************************************)
(* Properties of the builder.                                              *)
(***************************************************************************)
\* C2: round trip: whenever genLockTx succeeds for a URL-safe name of at
\* most 64 bytes, verifyLockTX accepts the returned transaction with the
\* same service address.
C2Claim ==
    (/\ lpc = "done"
     /\ vpc = "done"
     /\ ByteLength(fromUtf8(lin.name)) <= MaxNameBytes
     /\ \A c \in CharsOf(lin.name) : InURIClassNoHyphen(c))
    => vresult = "true"

\* C5: the returned transaction has the canonical order: output 0 a
\* zero-value null-data output with the owner's public key, output 1 a
\* zero-value null-data output with the UTF-8 bytes of the name, output 2
\* paying upfrontFee to the service address, output 3 paying lockedFee to
\* the escrow address.
C5Claim ==
    lpc = "done" =>
        /\ Len(tx) = 4
        /\ Commitment(tx[1]) /\ tx[1].script.data = PubKeyA
        /\ Commitment(tx[2]) /\ tx[2].script.data = fromUtf8(lin.name)
        /\ tx[3].script = fromAddress(serviceAddr) /\ tx[3].value = lin.upfrontFee
        /\ tx[4].script = fromAddress(EscrowAddress) /\ tx[4].value = lin.lockedFee

\* The transaction of lines 309-350 as the fee step sees it: the inputs
\* carry their placeholder scripts.
WithPlaceholders(mtx) ==
    [mtx EXCEPT !.inputs = [i \in DOMAIN mtx.inputs |-> [mtx.inputs[i] EXCEPT !.script = TemplateScript]]]

\* C9: the fee is ceil((virtual size with placeholder scripts + 72 per
\* input) / 1000 * feeRate), the ceiling of the double product (the exact
\* ceiling, or one more when the exact product is an integer); it is taken from the change output only: the
\* name, upfront-fee and locked-fee outputs keep their values, inputs minus
\* outputs is exactly the fee, and no output value is negative; when the
\* change cannot cover the fee the build fails and returns no transaction.
C9Theorem ==
    /\ lpc \in {"built", "funded", "done"} =>
          /\ lockTx.outputs[2].value = opRetVal
          /\ lockTx.outputs[3].value = lin.upfrontFee
          /\ lockTx.outputs[4].value = lin.lockedFee
    /\ lpc \in {"funded", "done"} =>
          LET size == getVirtualSize(WithPlaceholders(lockTx)) + 72 * Len(lin.coins)
          IN /\ lfee * 1000 >= size * lin.feeRate
             /\ (lfee - 1) * 1000 <= size * lin.feeRate
             /\ lfee \in CeilFee(size, lin.feeRate)
             /\ SumSeq(lin.coins) - SumSeq(Values(lockTx.outputs)) = lfee
             /\ \A i \in DOMAIN lockTx.outputs : lockTx.outputs[i].value >= 0
             /\ SumSeq(lin.coins) - opRetVal - lin.upfrontFee - lin.lockedFee >= lfee
    /\ lpc = "done" => Values(tx) = Values(lockTx.outputs)
    /\ lpc = "error" => tx = <<>> /\ vpc = "idle"

\* A build that paid a non-zero fee out of two coins, and returned.
C9Witness ==
    /\ lpc = "done"
    /\ Len(lin.coins) = 2
    /\ lfee > 0
    /\ tx[1].value = SumSeq(lin.coins) - opRetVal - lin.upfrontFee - lin.lockedFee - lfee

(***************************************************************************)
(* makeEncumberScript (src/lib/net.ts, lines 261-295).                     *)
(* An opcode is [op, data]; a data push is op "PUSH" with its data as a    *)
(* sequence of bytes.                                                      *)
(***************************************************************************)
Op(name) == [op |-> name, data |-> <<>>]
Push(data) == [op |-> "PUSH", data |-> data]

\* Byte i (from 0, least significant first) of a non-negative integer.
RECURSIVE ByteAt(_, _)
ByteAt(num, i) == IF i = 0 THEN num % 256 ELSE ByteAt(num \div 256, i - 1)

\* I64(rlocktime).toLE(Buffer): the 8 bytes of the 64-bit value, little-endian.
toLE(num) == [i \in 1..8 |-> ByteAt(num, i - 1)]

\* Lines 275-282: from the last index down, skip zero bytes while min > 1.
RECURSIVE MinIndex(_, _)
MinIndex(numBuff, min) ==
    IF min > 1 /\ numBuff[min + 1] = 0 THEN MinIndex(numBuff, min - 1) ELSE min

\* buf.slice(start, end): the bytes at indices start .. end - 1.
slice(buf, start, end) == SubSeq(buf, start + 1, end)

\* The bytes of a run-length encoded buffer, one by one.
RECURSIVE Expand(_)
Expand(buf) ==
    IF buf = <<>> THEN <<>>
    ELSE [i \in 1..Head(buf).n |-> Head(buf).b] \o Expand(Tail(buf))

makeEncumberScript(userPubkey, servicePubkey, rlocktime) ==
    LET numBuff == toLE(rlocktime)
        min == MinIndex(numBuff, Len(numBuff) - 1)
    IN <<Op("OP_IF"),
         Push(Expand(userPubkey)),
         Op("OP_CHECKSIG"),
         Op("OP_ELSE"),
         Push(slice(numBuff, 0, min)),
         Op("OP_CHECKSEQUENCEVERIFY"),
         Op("OP_DROP"),
         Push(Expand(servicePubkey)),
         Op("OP_CHECKSIG"),
         Op("OP_ENDIF")>>

\* genRedeemScript (lines 297-299): the ring's key fills both roles.
genRedeemScript(ringKey, locktime) == makeEncumberScript(ringKey, ringKey, locktime)

\* The call makeEncumberScript(userPubkey, servicePubkey, rlocktime).
MakeEncumberScript ==
    /\ epc = "start"
    /\ escript' = makeEncumberScript(ein.userPubkey, ein.servicePubkey, ein.rlocktime)
    /\ epc' = "done"
    /\ UNCHANGED <<ein, vvars, lvars, fvars, tvars, uvars, gvars>>

PubKeyB == <<[b |-> 3, n |-> 1], [b |-> 98, n |-> 32]>>

\* Relative locktimes: every combination of these bytes in the three low
\* positions, with bit 24 clear or set.
LockTimeBytes == {0, 1, 255}

LockTimes ==
    {b0 + 256 * b1 + 65536 * b2 + 16777216 * b3 :
        b0 \in LockTimeBytes, b1 \in LockTimeBytes, b2 \in LockTimeBytes, b3 \in {0, 1}}

InitEnc ==
    /\ ein \in [userPubkey : {PubKeyA, PubKeyB}, servicePubkey : {PubKeyA, PubKeyB},
                rlocktime : LockTimes]
    /\ epc = "start"
    /\ escript = <<>>
    /\ IdleVerify /\ IdleLock /\ IdleFund /\ IdleTXList /\ IdleUnlock /\ IdleGetAll

NextEnc == MakeEncumberScript

SpecEnc == InitEnc /\ [][NextEnc]_vars

\* The little-endian value of a sequence of bytes.
RECURSIVE fromLE(_)
fromLE(bytes) == IF bytes = <<>> THEN 0 ELSE Head(bytes) + 256 * fromLE(Tail(bytes))

\* The data pushed right before OP_CHECKSEQUENCEVERIFY.
LockTimePush == escript[5].data

\* C6: the pushed relative locktime is the little-endian value with trailing
\* zero bytes stripped down to a minimum of 2 bytes: never shorter than 2
\* bytes, every non-zero byte of the value kept, no zero byte left above
\* the second, and decoding it gives the value back.
C6Claim ==
    epc = "done" =>
        /\ escript[6].op = "OP_CHECKSEQUENCEVERIFY"
        /\ Len(LockTimePush) >= 2
        /\ \A i \in 1..8 : toLE(ein.rlocktime)[i] # 0 =>
              i <= Len(LockTimePush) /\ LockTimePush[i] = toLE(ein.rlocktime)[i]
        /\ Len(LockTimePush) > 2 => LockTimePush[Len(LockTimePush)] # 0
        /\ fromLE(LockTimePush) = ein.rlocktime

(***************************************************************************)
(* fundTx (src/lib/net.ts, lines 78-127).                                  *)
(* The server's answer to listunspent is a sequence of unspent outputs     *)
(* [tx_pos, value]; the Coin made of one has the value the listing gave.   *)
(***************************************************************************)
\* Insert utxo into a list sorted by the comparator b.value - a.value,
\* after the elements that do not compare greater (the sort is stable).
RECURSIVE InsertDesc(_, _)
InsertDesc(sorted, utxo) ==
    IF sorted = <<>> THEN <<utxo>>
    ELSE IF Head(sorted).value >= utxo.value
         THEN <<Head(sorted)>> \o InsertDesc(Tail(sorted), utxo)
         ELSE <<utxo>> \o sorted

\* The list left in the order the server gave.
ServerOrder(txs) == txs

\* txs.sort((a, b) => b.value - a.value): largest value first.
RECURSIVE SortDesc(_)
SortDesc(txs) ==
    IF txs = <<>> THEN <<>>
    ELSE InsertDesc(SortDesc(SubSeq(txs, 1, Len(txs) - 1)), txs[Len(txs)])

\* The loop of lines 103-117: push a coin, add its value, stop at the target.
RECURSIVE SelectCoins(_, _, _)
SelectCoins(txs, totalVal, target) ==
    IF txs = <<>> THEN <<>>
    ELSE <<Head(txs)>> \o
         (IF totalVal + Head(txs).value >= target THEN <<>>
          ELSE SelectCoins(Tail(txs), totalVal + Head(txs).value, target))

TotalValue(cs) == SumSeq([i \in DOMAIN cs |-> cs[i].value])

\* fundTx: the coins returned, or the error thrown.
fundTx(utxos, target) ==
    IF Len(utxos) = 0
    THEN [coins |-> <<>>, error |-> "No unspent txs found"]
    ELSE LET selected == SelectCoins(SortDesc(utxos), 0, target)
         IN IF TotalValue(selected) < target
            THEN [coins |-> <<>>, error |-> "Insufficient funds available"]
            ELSE [coins |-> selected, error |-> ""]

\* The call fundTx(addr, target, network).
FundTx ==
    /\ fpc = "start"
    /\ LET r == fundTx(fin.utxos, fin.target)
       IN /\ coins' = r.coins
          /\ ferr' = r.error
          /\ fpc' = IF r.error = "" THEN "done" ELSE "error"
    /\ UNCHANGED <<fin, vvars, lvars, evars, tvars, uvars, gvars>>

MaxUtxos == 3
MaxTarget == 6

UtxoValues == {0, 1, 2, 5}

InitFund ==
    /\ \E n \in 0..MaxUtxos : \E values \in [1..n -> UtxoValues] :
       \E target \in 0..MaxTarget :
          fin = [utxos |-> [i \in 1..n |-> [tx_pos |-> i, value |-> values[i]]],
                 target |-> target]
    /\ fpc = "start"
    /\ coins = <<>>
    /\ ferr = ""
    /\ IdleVerify /\ IdleLock /\ IdleEnc /\ IdleTXList /\ IdleUnlock /\ IdleGetAll

NextFund == FundTx

SpecFund == InitFund /\ [][NextFund]_vars

\* The coins are the largest unspent outputs, largest first: every coin is
\* one of the listing, none twice, and no output left out is worth more
\* than a coin taken.
TakenLargestFirst ==
    /\ \A i \in DOMAIN coins : coins[i] \in {fin.utxos[j] : j \in DOMAIN fin.utxos}
    /\ \A i, j \in DOMAIN coins : i < j =>
          coins[i].value >= coins[j].value /\ coins[i].tx_pos # coins[j].tx_pos
    /\ \A j \in DOMAIN fin.utxos :
          fin.utxos[j] \notin {coins[i] : i \in DOMAIN coins} =>
             \A i \in DOMAIN coins : coins[i].value >= fin.utxos[j].value

\* The outcome of fundTx but for the last sentence of C7: it returns coins
\* worth at least the target or fails, and it fails exactly when there is no
\* unspent output or all of them together are worth less than the target.
FundOutcome ==
    /\ fpc = "done" => coins # <<>> /\ TotalValue(coins) >= fin.target /\ TakenLargestFirst
    /\ fpc = "error" => coins = <<>>
    /\ fpc \in {"done", "error"} =>
          /\ ferr = "No unspent txs found" <=> fin.utxos = <<>>
          /\ ferr = "Insufficient funds available" <=>
                fin.utxos # <<>> /\ TotalValue(fin.utxos) < fin.target
          /\ fpc = "error" <=> ferr # ""

\* The coins returned, without the last.
AllButLast == SubSeq(coins, 1, Len(coins) - 1)

\* C7 as stated: fundTx returns coins worth at least the target or fails (no
\* unspent outputs, or their sum below the target); the coins are taken
\* largest first and the list without its last coin totals less than target.
C7Original ==
    /\ FundOutcome
    /\ fpc = "done" => TotalValue(AllButLast) < fin.target

\* C7 (amended): as stated, but the list without its last coin totals less
\* than the target only for a positive target; for a target of zero or less
\* the list is the single largest coin.
C7Amended ==
    /\ FundOutcome
    /\ fpc = "done" /\ fin.target > 0 => TotalValue(AllButLast) < fin.target
    /\ fpc = "done" /\ fin.target <= 0 =>
          /\ Len(coins) = 1
          /\ \A j \in DOMAIN fin.utxos : coins[1].value >= fin.utxos[j].value

\* A selection of two coins that stops before the third.
C7Witness ==
    /\ fpc = "done"
    /\ Len(fin.utxos) = 3
    /\ Len(coins) = 2
    /\ fin.utxos[1].value < fin.utxos[3].value
    /\ TotalValue(coins) > fin.target

(***************************************************************************)
(* new TXList(txs, spent, heights), as the tests of src/unnamed/part_001   *)
(* use it.  A transaction is [txid, outputs] with outputs the number of    *)
(* its outputs.                                                            *)
(***************************************************************************)
SameLengthError ==
    [msg |-> "Lists of TXs, spent outputs, and heights must be of same length",
     txid |-> "", got |-> 0, expected |-> 0]

\* `Bad outputs for tx ${txid}; got ${got}, expected ${expected}`
BadOutputsError(txid, got, expected) ==
    [msg |-> "Bad outputs for tx", txid |-> txid, got |-> got, expected |-> expected]

\* The first transaction whose spent list has another length than its outputs.
FirstBadTx(txs, spent) ==
    CHOOSE i \in DOMAIN txs :
        /\ Len(spent[i]) # txs[i].outputs
        /\ \A j \in 1..(i - 1) : Len(spent[j]) = txs[j].outputs

\* The constructor with the heights list left unchecked.
TXListIgnoringHeights(txs, spent, heights) ==
    IF Len(txs) # Len(spent)
    THEN [list |-> NoTXList, error |-> SameLengthError]
    ELSE IF \E i \in DOMAIN txs : Len(spent[i]) # txs[i].outputs
    THEN LET i == FirstBadTx(txs, spent)
         IN [list |-> NoTXList,
             error |-> BadOutputsError(txs[i].txid, Len(spent[i]), txs[i].outputs)]
    ELSE [list |-> [txids |-> [i \in DOMAIN txs |-> txs[i].txid],
                    spent |-> spent, heights |-> heights],
          error |-> NoError]

\* The constructor: the object built, or the error thrown.
TXList(txs, spent, heights) ==
    IF Len(txs) # Len(spent) \/ Len(txs) # Len(heights)
    THEN [list |-> NoTXList, error |-> SameLengthError]
    ELSE IF \E i \in DOMAIN txs : Len(spent[i]) # txs[i].outputs
    THEN LET i == FirstBadTx(txs, spent)
         IN [list |-> NoTXList,
             error |-> BadOutputsError(txs[i].txid, Len(spent[i]), txs[i].outputs)]
    ELSE [list |-> [txids |-> [i \in DOMAIN txs |-> txs[i].txid],
                    spent |-> spent, heights |-> heights],
          error |-> NoError]

\* The call new TXList(txs, spent, heights).
NewTXList ==
    /\ tpc = "start"
    /\ LET r == TXList(tin.txs, tin.spent, tin.heights)
       IN /\ txlist' = r.list
          /\ terr' = r.error
          /\ tpc' = IF r.error = NoError THEN "done" ELSE "error"
    /\ UNCHANGED <<tin, vvars, lvars, evars, fvars, uvars, gvars>>

MaxTxs == 2
MaxTxOutputs == 2

\* Transaction i of a call has the txid TxIds[i].
TxIds == <<"04accc0d", "lockTx", "tx3", "tx4">>

\* Spent lists of every length up to one more than a transaction can have
\* outputs: all spent, or every second output spent.
SpentLists ==
    {[i \in 1..n |-> TRUE] : n \in 0..(MaxTxOutputs + 1)}
    \cup {[i \in 1..n |-> i % 2 = 0] : n \in 0..(MaxTxOutputs + 1)}

InitTXList ==
    /\ \E n \in 0..MaxTxs : \E outs \in [1..n -> 1..MaxTxOutputs] :
       \E m \in 0..MaxTxs : \E spent \in [1..m -> SpentLists] :
       \E h \in 0..MaxTxs :
          tin = [txs |-> [i \in 1..n |-> [txid |-> TxIds[i], outputs |-> outs[i]]],
                 spent |-> spent,
                 heights |-> [i \in 1..h |-> i]]
    /\ tpc = "start"
    /\ txlist = NoTXList
    /\ terr = NoError
    /\ IdleVerify /\ IdleLock /\ IdleEnc /\ IdleFund /\ IdleUnlock /\ IdleGetAll

NextTXList == NewTXList

SpecTXList == InitTXList /\ [][NextTXList]_vars

SameOuterLengths == Len(tin.txs) = Len(tin.spent) /\ Len(tin.txs) = Len(tin.heights)

\* C8: construction succeeds exactly when the three lists have the same
\* length and every spent list is as long as its transaction has outputs;
\* otherwise it fails and produces no TXList: with the same-length message
\* for an outer mismatch, and for a per-transaction mismatch with a message
\* naming the transaction id, the actual and the expected count.
C8Theorem ==
    tpc \in {"done", "error"} =>
        /\ tpc = "done" <=>
              /\ SameOuterLengths
              /\ \A i \in DOMAIN tin.txs : Len(tin.spent[i]) = tin.txs[i].outputs
        /\ tpc = "done" =>
              /\ terr = NoError
              /\ txlist.txids = [i \in DOMAIN tin.txs |-> tin.txs[i].txid]
              /\ txlist.spent = tin.spent
              /\ txlist.heights = tin.heights
        /\ tpc = "error" => txlist = NoTXList
        /\ tpc = "error" /\ ~SameOuterLengths => terr = SameLengthError
        /\ tpc = "error" /\ SameOuterLengths =>
              \E i \in DOMAIN tin.txs :
                 /\ Len(tin.spent[i]) # tin.txs[i].outputs
                 /\ terr = BadOutputsError(tin.txs[i].txid, Len(tin.spent[i]), tin.txs[i].outputs)

\* A spent list too long for the second of two transactions.
C8Witness ==
    /\ tpc = "error"
    /\ Len(tin.txs) = 2
    /\ terr.msg = "Bad outputs for tx"
    /\ terr.txid = "lockTx"
    /\ terr.got > terr.expected

(***************************************************************************)
(* genUnlockTx (src/lib/net.ts, lines 368-410).                            *)
(* An input is [prevout, value, script]; the input script built here is    *)
(* [size, items] with items <<signature, selector, redeem script>>.  A     *)
(* signature is [digest, size]: the digest is what the signed hash commits *)
(* to under SIGHASH_ALL, size the length of the DER signature with its     *)
(* hash-type byte, which varies from one digest to the next.               *)
(***************************************************************************)
\* Serialized size of a script given as a sequence of opcodes.
RawSize(script) ==
    SumSeq([i \in DOMAIN script |->
              IF script[i].op = "PUSH" THEN PushSize(Len(script[i].data)) ELSE 1])

SignatureSizes == {71, 72, 73}

\* What signature(index, prev, value, key, ALL, 0) commits to: the outpoint
\* spent, the script `prev` and every output (value and script).
Digest(mtx, index, prev) ==
    [prevout |-> mtx.inputs[index + 1].prevout, prev |-> prev, outputs |-> mtx.outputs]

\* mtx.signature(index, prev, value, key, type, version), with a DER size.
signature(mtx, index, prev, size) == [digest |-> Digest(mtx, index, prev), size |-> size]

\* The script of the first pass kept when there is one.
StaleSpendScript(mtx, redeemScript, first, size) ==
    IF first # EmptyScript THEN first
    ELSE [size |-> PushSize(size) + 1 + PushSize(RawSize(redeemScript)),
          items |-> <<signature(mtx, 0, redeemScript, size), 1, redeemScript>>]

\* Lines 383-387 and 401-405: signature, OP_1 (the branch of OP_IF), the
\* serialized redeem script.  `first` is the script a first pass built.
SpendScript(mtx, redeemScript, first, size) ==
    [size |-> PushSize(size) + 1 + PushSize(RawSize(redeemScript)),
     items |-> <<signature(mtx, 0, redeemScript, size), 1, redeemScript>>]

\* The redeem script the caller passes: genRedeemScript(ring, locktime).
RedeemScript == genRedeemScript(PubKeyA, uin.locktime)

\* Lines 369-381: one input spending output 3 of lockTx, one output of the
\* same value to the ring's address.  lockTx.outputs[3] must exist.
UnlockBuild ==
    /\ upc = "start"
    /\ IF Len(uin.lockTx.outputs) < 4
       THEN /\ upc' = "error"
            /\ UNCHANGED unlockTx
       ELSE LET val == uin.lockTx.outputs[4].value
            IN /\ unlockTx' =
                     [inputs |-> <<[prevout |-> [hash |-> uin.lockTx.txid, index |-> 3],
                                    value |-> val, script |-> EmptyScript]>>,
                      outputs |-> <<addOutput(OwnerAddress, val)>>]
               /\ upc' = "unsigned"
    /\ UNCHANGED <<uin, unlockScript, ufee, vvars, lvars, evars, fvars, tvars, gvars>>

\* Lines 383-389: the first signature, over the placeholder output value.
UnlockSign ==
    /\ upc = "unsigned"
    /\ \E size \in SignatureSizes :
          /\ unlockScript' = SpendScript(unlockTx, RedeemScript, EmptyScript, size)
          /\ unlockTx' = [unlockTx EXCEPT !.inputs[1].script = unlockScript']
    /\ upc' = "provisional"
    /\ UNCHANGED <<uin, ufee, vvars, lvars, evars, fvars, tvars, gvars>>

\* Lines 395-398: the fee from the size of the provisionally signed
\* transaction, taken from output 0.
UnlockFee ==
    /\ upc = "provisional"
    /\ \E fee \in CeilFee(getVirtualSize(unlockTx), uin.feeRate) :
          LET sub == subtractFee(unlockTx.outputs, fee, 0, uin.dust)
          IN /\ ufee' = fee
             /\ unlockTx' = [unlockTx EXCEPT !.outputs = sub.outputs]
             /\ upc' = IF sub.ok THEN "feeSubtracted" ELSE "error"
    /\ UNCHANGED <<uin, unlockScript, vvars, lvars, evars, fvars, tvars, gvars>>

\* Lines 400-409: the script is made again with a new signature; toTX().
UnlockResign ==
    /\ upc = "feeSubtracted"
    /\ \E size \in SignatureSizes :
          unlockTx' = [unlockTx EXCEPT !.inputs[1].script =
                          SpendScript(unlockTx, RedeemScript, unlockScript, size)]
    /\ upc' = "finalized"
    /\ UNCHANGED <<uin, unlockScript, ufee, vvars, lvars, evars, fvars, tvars, gvars>>

\* Lock transactions to unlock: four outputs with the locked value last,
\* and one that lacks output 3.
LockedValues == {600, 1000, 5000}

LockTxFor(locked) ==
    [txid |-> "lockTx",
     outputs |-> <<addOutput(OwnerAddress, 700),
                   Output(fromNulldata(fromUtf8(StrPlain)), opRetVal, NoAddress),
                   addOutput(ServiceAddress, 300),
                   addOutput(EscrowAddress, locked)>>]

UnlockLockTxs ==
    {LockTxFor(locked) : locked \in LockedValues}
    \cup {[txid |-> "short", outputs |-> SubSeq(LockTxFor(600).outputs, 1, 3)]}

InitUnlock ==
    /\ uin \in [lockTx : UnlockLockTxs, locktime : {1, 256, 65536},
                feeRate : {0, 1000, 2500}, dust : DustThresholds]
    /\ upc = "start"
    /\ unlockTx = [inputs |-> <<>>, outputs |-> <<>>]
    /\ unlockScript = EmptyScript
    /\ ufee = -1
    /\ IdleVerify /\ IdleLock /\ IdleEnc /\ IdleFund /\ IdleTXList /\ IdleGetAll

NextUnlock == UnlockBuild \/ UnlockSign \/ UnlockFee \/ UnlockResign

SpecUnlock == InitUnlock /\ [][NextUnlock]_vars

\* The phase of the builder at a position of genUnlockTx.
Phase(pc) ==
    CASE pc = "unsigned" -> "Unsigned"
      [] pc \in {"provisional", "feeSubtracted"} -> "ProvisionallySigned"
      [] pc = "finalized" -> "Finalized"
      [] OTHER -> pc

\* The phases follow one another in order; a build may only stop with an
\* error on the way.
PhaseStep ==
    Phase(upc') # Phase(upc) =>
        <<Phase(upc), Phase(upc')>> \in
            {<<"start", "Unsigned">>, <<"start", "error">>,
             <<"Unsigned", "ProvisionallySigned">>,
             <<"ProvisionallySigned", "Finalized">>,
             <<"ProvisionallySigned", "error">>}

\* The signature in an input script.
SigOf(script) == script.items[1]

\* The returned transaction and what it was made from.
Finalized ==
    upc = "finalized" =>
        LET val == uin.lockTx.outputs[4].value
            provisional == [unlockTx EXCEPT !.inputs[1].script = unlockScript]
        IN /\ Len(unlockTx.inputs) = 1
           /\ unlockTx.inputs[1].prevout = [hash |-> uin.lockTx.txid, index |-> 3]
           /\ Len(unlockTx.outputs) = 1
           /\ unlockTx.outputs[1].script = fromAddress(OwnerAddress)
           /\ ufee \in CeilFee(getVirtualSize(provisional), uin.feeRate)
           /\ unlockTx.outputs[1].value = val - ufee
           /\ unlockTx.outputs[1].value >= 0
           /\ Len(unlockTx.inputs[1].script.items) = 3
           /\ unlockTx.inputs[1].script.items[2] = 1
           /\ unlockTx.inputs[1].script.items[3] = RedeemScript
           /\ SigOf(unlockTx.inputs[1].script).digest = Digest(unlockTx, 0, RedeemScript)
           /\ SigOf(unlockTx.inputs[1].script).digest.outputs[1].value = val - ufee
           /\ SigOf(unlockScript).digest.outputs[1].value = val
           /\ ufee > 0 => SigOf(unlockTx.inputs[1].script).digest # SigOf(unlockScript).digest

\* While provisionally signed, the input carries the first signature, made
\* over the placeholder output value.
Provisional ==
    upc \in {"provisional", "feeSubtracted"} =>
        /\ unlockTx.inputs[1].script = unlockScript
        /\ SigOf(unlockScript).digest.outputs[1].value = uin.lockTx.outputs[4].value

\* C10: genUnlockTx goes through Unsigned, ProvisionallySigned, Finalized in
\* that order; the returned transaction has one input spending output 3 of
\* the lock transaction, one output of the locked value less the fee to the
\* owner's address, the fee being computed from the provisionally signed
\* transaction, and the input script <<signature, 1, redeem script>> whose
\* signature is made after the fee is subtracted, never the provisional one.
C10Theorem == [](Finalized /\ Provisional) /\ [][PhaseStep]_vars

\* A returned unlock transaction that paid a fee.
C10Witness ==
    /\ upc = "finalized"
    /\ ufee > 0
    /\ unlockTx.outputs[1].value = uin.lockTx.outputs[4].value - ufee
    /\ SigOf(unlockScript).digest.outputs[1].value = uin.lockTx.outputs[4].value

(***************************************************************************)
(* getAllTX (src/lib/net.ts, lines 129-183).  A history entry is           *)
(* [tx_hash, height, outputs], outputs being the address each output of    *)
(* the transaction pays ("null" when getAddress() returns null).  The      *)
(* server's state is the set of unspent outputs, as txid:index keys.       *)
(***************************************************************************)
NoAddr == "null"

\* tx_hash + ':' + tx_pos, tx.txid() + ':' + ind
Key(txid, ind) == [tx_hash |-> txid, tx_pos |-> ind]

\* The address paid by the output a key names.
PaidBy(history, key) ==
    LET t == CHOOSE i \in DOMAIN history : history[i].tx_hash = key.tx_hash
    IN history[t].outputs[key.tx_pos + 1]

\* The server's answer to blockchainAddress_listunspent(outAddr), already
\* reduced to the keys of lines 168-171.
listunspent(outAddr) ==
    {k \in gin.unspent : PaidBy(gin.history, k) = outAddr}

\* The callbacks of lines 152-176: one per output of a confirmed
\* transaction, <<t, i>> for output i - 1 of transaction t.
Callbacks(confirmed) ==
    UNION {{<<t, i>> : i \in DOMAIN confirmed[t].outputs} : t \in DOMAIN confirmed}

\* The order in which the two map calls invoke the callbacks.
Before(a, b) == a[1] < b[1] \/ (a[1] = b[1] /\ a[2] <= b[2])

NotStarted == {cb \in DOMAIN callbacks : callbacks[cb].pc = "new"}

\* Lines 130-149: connect, fetch the history, keep the confirmed entries and
\* fetch their transactions; the map calls of lines 152-154 are about to run.
GetHistory ==
    /\ gpc = "start"
    /\ LET confirmed == SelectSeq(gin.history, LAMBDA data : data.height > 0)
       IN /\ confirmedOnly' = confirmed
          /\ callbacks' = [cb \in Callbacks(confirmed) |-> [pc |-> "new", ret |-> FALSE]]
    /\ gpc' = "map"
    /\ UNCHANGED <<gin, unspents, outputsSpent, gtxlist>>
    /\ UNCHANGED <<vvars, lvars, evars, fvars, tvars, uvars>>

\* The cache with the placeholder of line 165 in place.
WithPlaceholder(outAddr) ==
    [a \in DOMAIN unspents \cup {outAddr} |->
        IF a = outAddr THEN {} ELSE unspents[a]]

\* A callback runs from its call by map to its first await or its return
\* (lines 155-166 or 155-174).  The map calls are synchronous: the callbacks
\* start in order, and none resumes before all have started.
StartCallback ==
    /\ gpc = "map"
    /\ NotStarted # {}
    /\ LET cb == CHOOSE c \in NotStarted : \A d \in NotStarted : Before(c, d)
           txn == confirmedOnly[cb[1]]
           outAddr == txn.outputs[cb[2]]
       IN IF outAddr = NoAddr
          THEN /\ callbacks' = [callbacks EXCEPT ![cb] = [pc |-> "done", ret |-> FALSE]]
               /\ UNCHANGED unspents
          ELSE IF outAddr \notin DOMAIN unspents
          THEN /\ unspents' = WithPlaceholder(outAddr)
               /\ callbacks' = [callbacks EXCEPT ![cb] = [pc |-> "await", ret |-> FALSE]]
          ELSE /\ callbacks' =
                    [callbacks EXCEPT ![cb] =
                        [pc |-> "done",
                         ret |-> Key(txn.tx_hash, cb[2] - 1) \notin unspents[outAddr]]]
               /\ UNCHANGED unspents
    /\ UNCHANGED <<gin, gpc, confirmedOnly, outputsSpent, gtxlist>>
    /\ UNCHANGED <<vvars, lvars, evars, fvars, tvars, uvars>>

\* The server's answer arrives for a callback waiting at line 166: lines
\* 166-174.  The answers arrive in any order.
ResumeCallback(cb) ==
    /\ gpc = "map"
    /\ NotStarted = {}
    /\ callbacks[cb].pc = "await"
    /\ LET txn == confirmedOnly[cb[1]]
           outAddr == txn.outputs[cb[2]]
           remoteUtxos == listunspent(outAddr)
       IN /\ unspents' = [unspents EXCEPT ![outAddr] = remoteUtxos]
          /\ callbacks' =
                [callbacks EXCEPT ![cb] =
                    [pc |-> "done",
                     ret |-> Key(txn.tx_hash, cb[2] - 1) \notin remoteUtxos]]
    /\ UNCHANGED <<gin, gpc, confirmedOnly, outputsSpent, gtxlist>>
    /\ UNCHANGED <<vvars, lvars, evars, fvars, tvars, uvars>>

\* Both Promise.all have resolved: lines 178-182.
ReturnTXList ==
    /\ gpc = "map"
    /\ \A cb \in DOMAIN callbacks : callbacks[cb].pc = "done"
    /\ LET spent == [t \in DOMAIN confirmedOnly |->
                        [i \in DOMAIN confirmedOnly[t].outputs |-> callbacks[<<t, i>>].ret]]
           heights == [t \in DOMAIN confirmedOnly |-> confirmedOnly[t].height]
           fullTxs == [t \in DOMAIN confirmedOnly |->
                          [txid |-> confirmedOnly[t].tx_hash,
                           outputs |-> Len(confirmedOnly[t].outputs)]]
       IN /\ outputsSpent' = spent
          /\ gtxlist' = TXList(fullTxs, spent, heights).list
    /\ gpc' = "done"
    /\ UNCHANGED <<gin, confirmedOnly, unspents, callbacks>>
    /\ UNCHANGED <<vvars, lvars, evars, fvars, tvars, uvars>>

\* The addresses the outputs of a transaction pay: all the same address,
\* two addresses in turn, or the first output without an address.
OutputAddrs ==
    UNION {{[i \in 1..n |-> "addrA"],
            [i \in 1..n |-> IF i % 2 = 1 THEN "addrA" ELSE "addrB"],
            [i \in 1..n |-> IF i = 1 THEN NoAddr ELSE "addrA"]} : n \in 1..MaxTxOutputs}

\* Every output of a history that pays an address.
AllKeys(history) ==
    UNION {{Key(history[t].tx_hash, i - 1) :
                i \in {j \in DOMAIN history[t].outputs : history[t].outputs[j] # NoAddr}} :
           t \in DOMAIN history}

\* The server's unspent outputs: all of them, none, those at even or odd
\* indices, those of the first transaction.
UnspentSets(history) ==
    {AllKeys(history), {},
     {k \in AllKeys(history) : k.tx_pos % 2 = 0},
     {k \in AllKeys(history) : k.tx_pos % 2 = 1},
     {k \in AllKeys(history) : k.tx_hash = TxIds[1]}}

InitGetAll ==
    /\ \E n \in 0..MaxTxs :
       \E outs \in [1..n -> OutputAddrs] :
       \E hs \in [1..n -> {0, 1}] :
          LET history == [i \in 1..n |->
                             [tx_hash |-> TxIds[i], height |-> hs[i] * (100 + i),
                              outputs |-> outs[i]]]
          IN \E unspent \in UnspentSets(history) :
                gin = [history |-> history, unspent |-> unspent]
    /\ gpc = "start"
    /\ confirmedOnly = <<>>
    /\ unspents = <<>>
    /\ callbacks = <<>>
    /\ outputsSpent = <<>>
    /\ gtxlist = NoTXList
    /\ IdleVerify /\ IdleLock /\ IdleEnc /\ IdleFund /\ IdleTXList /\ IdleUnlock

NextGetAll ==
    \/ GetHistory
    \/ StartCallback
    \/ \E cb \in DOMAIN callbacks : ResumeCallback(cb)
    \/ ReturnTXList

SpecGetAll == InitGetAll /\ [][NextGetAll]_vars

\* C11: the spent flag getAllTX hands to TXList for an output with an
\* address is true exactly when txid:index is absent from the server's
\* unspent list for that address, whatever the order in which the callbacks
\* run; a callback that runs while the listunspent request of an earlier
\* callback for the same address is pending does not take the empty
\* placeholder for the answer.
C11Claim ==
    gpc = "done" =>
        \A t \in DOMAIN confirmedOnly :
            \A i \in DOMAIN confirmedOnly[t].outputs :
                LET outAddr == confirmedOnly[t].outputs[i]
                IN outAddr # NoAddr =>
                      (outputsSpent[t][i]
                          <=> Key(confirmedOnly[t].tx_hash, i - 1) \notin listunspent(outAddr))

====
